---- MODULE Spec2Model ----
(***************************************************************************)
(* A model of the splice predictors of spliced (spliced/predict):          *)
(*   symbols.py     the symbol-graph predictor (SymbolsPrediction)         *)
(*   smeagle        the structural predictor and its fact cache            *)
(*   libabigail.py  the pairwise (abicompat) predictor                     *)
(* Paths and other strings the code takes apart (basename, split, strip,   *)
(* startswith, regular expressions) are sequences of one-character         *)
(* strings, so that the string functions are computed and not assumed.     *)
(***************************************************************************)
EXTENDS Integers, Sequences, FiniteSets, TLC

VARIABLES splice, loc, pc, ret, env

vars == <<splice, loc, pc, ret, env>>

(***************************************************************************)
(* Strings                                                                 *)
(***************************************************************************)
Slash == <<"/">>

Dot == <<".">>

\* os.path.basename(p): what follows the last "/"
basename(p) ==
    LET idx == {i \in 1..Len(p) : p[i] = "/"}
        last == IF idx = {} THEN 0 ELSE CHOOSE i \in idx : \A j \in idx : j <= i
    IN  SubSeq(p, last + 1, Len(p))

\* s.split(c)[0]: what precedes the first c
split_first(s, c) ==
    LET idx == {i \in 1..Len(s) : s[i] = c}
        first == IF idx = {} THEN Len(s) + 1
                 ELSE CHOOSE i \in idx : \A j \in idx : i <= j
    IN  SubSeq(s, 1, first - 1)

\* s.startswith(p)
startswith(s, p) == Len(p) <= Len(s) /\ SubSeq(s, 1, Len(p)) = p

\* s.strip(c): s without its leading and trailing runs of c
strip(s, c) ==
    LET keep == {i \in 1..Len(s) : s[i] # c}
        lo == IF keep = {} THEN 1 ELSE CHOOSE i \in keep : \A j \in keep : i <= j
        hi == IF keep = {} THEN 0 ELSE CHOOSE i \in keep : \A j \in keep : j <= i
    IN  SubSeq(s, lo, hi)

\* base.get_prefix(lib): the identity key, the basename up to its first "."
get_prefix(lib) == split_first(basename(lib), ".")

\* x in seq
InSeq(x, seq) == \E i \in 1..Len(seq) : seq[i] = x

(***************************************************************************)
(* Formatted messages are sequences of tokens: a literal piece of the      *)
(* format string, an interpolated symbol name, or an interpolated string   *)
(* (a sequence of characters).                                             *)
(***************************************************************************)
Lit(s) == [t |-> "lit", v |-> s]

Sym(s) == [t |-> "sym", v |-> s]

Str(s) == [t |-> "str", v |-> s]

RECURSIVE join(_, _)
\* sep.join(parts), parts a sequence of token sequences
join(parts, sep) ==
    IF parts = <<>> THEN <<>>
    ELSE IF Len(parts) = 1 THEN parts[1]
    ELSE parts[1] \o <<sep>> \o join(Tail(parts), sep)

\* sep.join(names), names a sequence of symbol names
join_names(names, sep) == join([i \in 1..Len(names) |-> <<Sym(names[i])>>], sep)

(***************************************************************************)
(* Dictionaries are functions; a dictionary of symbols is iterated in the  *)
(* order of SymbolOrder.                                                   *)
(***************************************************************************)
SymbolOrder == <<"foo", "bar", "a", "b", "c">>

keys(d) == SelectSeq(SymbolOrder, LAMBDA s : s \in DOMAIN d)

EmptyDict == [x \in {} |-> x]

Put(d, k, v) == [x \in DOMAIN d \cup {k} |-> IF x = k THEN v ELSE d[x]]

\* an entry of a symbol map's "found": with or without a resolving library
HasLib(p) == [type |-> "FUNC", lib |-> [realpath |-> p]]

NoLib == [type |-> "FUNC"]

(***************************************************************************)
(* symbols.py: the checks of the symbol-graph predictor                    *)
(* (base.time_run_decorator, which wraps the three checks, is taken to     *)
(* return the record the check returns; the time it adds is left out)      *)
(***************************************************************************)
\* mutant: the providers are compared by path, not by identity key
compress_symbol_set_realpath(symbols) ==
    [s \in {x \in DOMAIN symbols : "lib" \in DOMAIN symbols[x]} |->
        symbols[s].lib.realpath]

compress_symbol_set(symbols) ==
    [s \in {x \in DOMAIN symbols : "lib" \in DOMAIN symbols[x]} |->
        get_prefix(symbols[s].lib.realpath)]

\* mutant: a symbol that is gone after the splice is not counted as a change
changed_for_present_only(symbol, original_symbols, spliced_symbols) ==
    IF symbol \notin DOMAIN spliced_symbols
    THEN <<>>
    ELSE IF spliced_symbols[symbol] # original_symbols[symbol]
    THEN << <<Lit("symbol "), Sym(symbol), Lit(" was originally "),
              Lit("provided by "), Str(original_symbols[symbol]),
              Lit(", after splice is "),
              Lit("provided by "), Str(spliced_symbols[symbol])>> >>
    ELSE <<>>

\* the entries one symbol of the loop at symbols.py:190 appends to `changed`
changed_for(symbol, original_symbols, spliced_symbols) ==
    IF symbol \notin DOMAIN spliced_symbols
    THEN << <<Lit("symbol {symbol} is missing in splice")>> >>
    ELSE IF spliced_symbols[symbol] # original_symbols[symbol]
    THEN << <<Lit("symbol "), Sym(symbol), Lit(" was originally "),
              Lit("provided by "), Str(original_symbols[symbol]),
              Lit(", after splice is "),
              Lit("provided by "), Str(spliced_symbols[symbol])>> >>
    ELSE <<>>

RECURSIVE changed_list(_, _, _)
changed_list(syms, original_symbols, spliced_symbols) ==
    IF syms = <<>> THEN <<>>
    ELSE changed_for(Head(syms), original_symbols, spliced_symbols)
         \o changed_list(Tail(syms), original_symbols, spliced_symbols)

check_symbol_provisioner_change(sp, meta, spliced_meta) ==
    LET binary_fullpath == meta.lib
        spliced_fullpath == spliced_meta.lib
        binary_symbols == sp.metadata[binary_fullpath]
        spliced_symbols0 == sp.metadata[spliced_fullpath]
        original_symbols == compress_symbol_set(binary_symbols.found)
        spliced_symbols == compress_symbol_set(spliced_symbols0.found)
        changed == changed_list(keys(original_symbols), original_symbols,
                                spliced_symbols)
    IN  [binary |-> binary_fullpath,
         splice_type |-> "same_lib",
         command |-> "binary-checks-symbol-provisioner-change",
         message |-> <<Lit("Symbol provider changes: ")>>
                     \o join(changed, Lit("\n")),
         prediction |-> (changed = <<>>)]

\* mutant: `after` is every symbol the spliced binary resolves, from any library
missing_previously_found_symbols_any(binary, original_symbols, spliced_symbols, match) ==
    LET before == SelectSeq(keys(original_symbols.found),
                     LAMBDA s : /\ "lib" \in DOMAIN original_symbols.found[s]
                                /\ original_symbols.found[s].lib.realpath
                                     = match.original)
        after == SelectSeq(keys(spliced_symbols.found),
                     LAMBDA s : "lib" \in DOMAIN spliced_symbols.found[s])
        missing_symbols == SelectSeq(before, LAMBDA x : ~InSeq(x, after))
    IN  [binary |-> binary,
         splice_type |-> "same_lib",
         original_lib |-> match.original,
         spliced_lib |-> match.spliced,
         command |-> "missing-previously-found-symbols",
         message |-> missing_symbols,
         prediction |-> (missing_symbols = <<>>)]

missing_previously_found_symbols(binary, original_symbols, spliced_symbols, match) ==
    LET before == SelectSeq(keys(original_symbols.found),
                     LAMBDA s : /\ "lib" \in DOMAIN original_symbols.found[s]
                                /\ original_symbols.found[s].lib.realpath
                                     = match.original)
        after == SelectSeq(keys(spliced_symbols.found),
                     LAMBDA s : /\ "lib" \in DOMAIN spliced_symbols.found[s]
                                /\ spliced_symbols.found[s].lib.realpath
                                     = match.spliced)
        missing_symbols == SelectSeq(before, LAMBDA x : ~InSeq(x, after))
    IN  [binary |-> binary,
         splice_type |-> "same_lib",
         original_lib |-> match.original,
         spliced_lib |-> match.spliced,
         command |-> "missing-previously-found-symbols",
         message |-> missing_symbols,
         prediction |-> (missing_symbols = <<>>)]

\* mutant: the exports that appeared are listed, not those that were lost
missing_previously_found_exports_new(binary, match, original_symbols, spliced_symbols) ==
    LET before == keys(original_symbols.exported)
        after == keys(spliced_symbols.exported)
        missing_symbols == SelectSeq(after, LAMBDA x : ~InSeq(x, before))
    IN  [binary |-> binary,
         splice_type |-> "same_lib",
         original_lib |-> match.original,
         spliced_lib |-> match.spliced,
         command |-> "missing-previously-found-exports",
         message |-> missing_symbols,
         prediction |-> (missing_symbols = <<>>)]

missing_previously_found_exports(binary, match, original_symbols, spliced_symbols) ==
    LET before == keys(original_symbols.exported)
        after == keys(spliced_symbols.exported)
        missing_symbols == SelectSeq(before, LAMBDA x : ~InSeq(x, after))
    IN  [binary |-> binary,
         splice_type |-> "same_lib",
         original_lib |-> match.original,
         spliced_lib |-> match.spliced,
         command |-> "missing-previously-found-exports",
         message |-> missing_symbols,
         prediction |-> (missing_symbols = <<>>)]

(***************************************************************************)
(* The libraries and binaries the checks are run on                        *)
(***************************************************************************)
C_lib == <<"l", "i", "b">>

C_so == <<"s", "o">>

\* /lib/libx.1.so
LibX1 == Slash \o C_lib \o Slash \o C_lib \o <<"x">> \o Dot \o <<"1">> \o Dot \o C_so

\* /lib/libx.2.so
LibX2 == Slash \o C_lib \o Slash \o C_lib \o <<"x">> \o Dot \o <<"2">> \o Dot \o C_so

\* /lib/liby.so
LibY == Slash \o C_lib \o Slash \o C_lib \o <<"y">> \o Dot \o C_so

\* /lib/libxy.so
LibXY == Slash \o C_lib \o Slash \o C_lib \o <<"x", "y">> \o Dot \o C_so

LibOrder == <<LibX1, LibX2, LibY, LibXY>>

\* the keys of the top-level binaries in the two lookups, in dictionary order
BinOrder == <<"swig", "pcre">>

BinKeys == {BinOrder[i] : i \in 1..Len(BinOrder)}

\* /o/swig, /o/pcre: the binary in the original tree
OrigBin(k) == <<"/", "o", "/">> \o (IF k = "swig" THEN <<"s", "w">> ELSE <<"p", "c">>)

\* /s/swig, /s/pcre: the binary in the spliced tree
SplBin(k) == <<"/", "s", "/">> \o (IF k = "swig" THEN <<"s", "w">> ELSE <<"p", "c">>)

\* "original:" + path and "spliced:" + path, the keys of the export metadata
OriginalKey(p) == <<"o", "r", "i", "g", "i", "n", "a", "l", ":">> \o p

SplicedKey(p) == <<"s", "p", "l", "i", "c", "e", "d", ":">> \o p

\* the longest `missing` list of a symbol map
MaxMissing == 1

MissingLists == {SubSeq(SymbolOrder, 1, n) : n \in 0..MaxMissing}

\* every dictionary from some of the symbols S to a value of V
Dicts(S, V) == UNION {[D -> V] : D \in SUBSET S}

SymbolMap(found, missing, exported) ==
    [found |-> found, missing |-> missing, exported |-> exported]

Exported(S) == [s \in S |-> "meta"]

(***************************************************************************)
(* base.py is not part of the sources: the lookups of                      *)
(* create_elfcall_deps_lookup are given with the splice, and               *)
(* match_by_prefix pairs the dependencies of the two sides that share an   *)
(* identity key.                                                           *)
(***************************************************************************)
create_elfcall_deps_lookup(sp, tree) == sp[tree]

RECURSIVE match_from(_, _, _)
match_from(order, deps, spliced_deps) ==
    IF order = <<>> THEN <<>>
    ELSE LET o == Head(order)
             here == IF o \in deps
                     THEN SelectSeq(LibOrder,
                              LAMBDA s : s \in spliced_deps
                                         /\ get_prefix(s) = get_prefix(o))
                     ELSE <<>>
         IN  [i \in 1..Len(here) |-> [original |-> o, spliced |-> here[i]]]
             \o match_from(Tail(order), deps, spliced_deps)

match_by_prefix(deps, spliced_deps) == match_from(LibOrder, deps, spliced_deps)

(***************************************************************************)
(* symbols.py: SymbolsPrediction                                           *)
(***************************************************************************)
\* the record of symbols.py:53-62
original_missing_record(binary_fullpath, binary_symbols) ==
    [binary |-> binary_fullpath,
     splice_type |-> "same_lib",
     command |-> "binary-checks-loader-missing-symbols-for-original",
     message |-> <<Lit("Loader found missing symbols for original binary: ")>>
                 \o join_names(binary_symbols.missing, Lit("\n")),
     prediction |-> FALSE]

RECURSIVE match_records(_, _, _, _, _)
\* the loop over the matches, symbols.py:82-108
match_records(sp, binary_fullpath, binary_symbols, spliced_symbols, matches) ==
    IF matches = <<>> THEN <<>>
    ELSE LET match == Head(matches)
             original_key == OriginalKey(match.original)
             spliced_key == SplicedKey(match.spliced)
         IN  <<missing_previously_found_symbols(binary_fullpath, binary_symbols,
                                                spliced_symbols, match)>>
             \o (IF \/ original_key \notin DOMAIN sp.metadata
                    \/ spliced_key \notin DOMAIN sp.metadata
                 THEN <<>>
                 ELSE <<missing_previously_found_exports(binary_fullpath, match,
                            sp.metadata[original_key], sp.metadata[spliced_key])>>)
             \o match_records(sp, binary_fullpath, binary_symbols, spliced_symbols,
                              Tail(matches))

\* symbols.py:65-108, a binary that passed the gate
binary_records(sp, meta, spliced_meta) ==
    LET binary_fullpath == meta.lib
        binary_symbols == sp.metadata[binary_fullpath]
        spliced_symbols == sp.metadata[spliced_meta.lib]
        matches == match_by_prefix(meta.deps, spliced_meta.deps)
    IN  <<check_symbol_provisioner_change(sp, meta, spliced_meta)>>
        \o match_records(sp, binary_fullpath, binary_symbols, spliced_symbols, matches)

\* predict: splice.different_libs selects splice_different_libs, which raises
SymbolsDifferentLibs ==
    /\ pc = "symbols"
    /\ splice.different_libs
    /\ pc' = "NotImplementedError"
    /\ UNCHANGED <<splice, loc, ret, env>>

\* predict -> splice_equivalent_libs up to its loop, symbols.py:31-36
SymbolsEquivalentLibs ==
    /\ pc = "symbols"
    /\ ~splice.different_libs
    /\ loc' = [original_deps |-> create_elfcall_deps_lookup(splice, "original"),
               spliced_deps |-> create_elfcall_deps_lookup(splice, "spliced"),
               predictions |-> <<>>,
               todo |-> SelectSeq(BinOrder, LAMBDA k : k \in DOMAIN splice.original)]
    /\ pc' = "symbols_loop"
    /\ UNCHANGED <<splice, ret, env>>

\* one iteration, symbols.py:41-45: the binary is not in the spliced tree
BinaryMissingFromSplice ==
    /\ pc = "symbols_loop"
    /\ loc.todo # <<>>
    /\ Head(loc.todo) \notin DOMAIN loc.spliced_deps
    /\ loc' = [loc EXCEPT !.todo = Tail(@)]
    /\ UNCHANGED <<splice, pc, ret, env>>

\* mutant: the gate appends its record and goes on to the checks (no `continue`)
BinaryOriginalMissing_NoContinue ==
    /\ pc = "symbols_loop"
    /\ loc.todo # <<>>
    /\ LET binary == Head(loc.todo)
           meta == loc.original_deps[binary]
           binary_symbols == splice.metadata[meta.lib]
       IN  /\ binary \in DOMAIN loc.spliced_deps
           /\ binary_symbols.missing # <<>>
           /\ loc' = [loc EXCEPT !.todo = Tail(@),
                                 !.predictions =
                                     Append(@, original_missing_record(meta.lib,
                                                   binary_symbols))
                                     \o binary_records(splice, meta,
                                            loc.spliced_deps[binary])]
    /\ UNCHANGED <<splice, pc, ret, env>>

\* one iteration, symbols.py:52-63: the original binary has missing symbols
BinaryOriginalMissing ==
    /\ pc = "symbols_loop"
    /\ loc.todo # <<>>
    /\ LET binary == Head(loc.todo)
           meta == loc.original_deps[binary]
           binary_symbols == splice.metadata[meta.lib]
       IN  /\ binary \in DOMAIN loc.spliced_deps
           /\ binary_symbols.missing # <<>>
           /\ loc' = [loc EXCEPT !.todo = Tail(@),
                                 !.predictions =
                                     Append(@, original_missing_record(meta.lib,
                                                   binary_symbols))]
    /\ UNCHANGED <<splice, pc, ret, env>>

\* one iteration, symbols.py:65-108: the checks of a binary that passed the gate
BinaryChecks ==
    /\ pc = "symbols_loop"
    /\ loc.todo # <<>>
    /\ LET binary == Head(loc.todo)
           meta == loc.original_deps[binary]
       IN  /\ binary \in DOMAIN loc.spliced_deps
           /\ splice.metadata[meta.lib].missing = <<>>
           /\ loc' = [loc EXCEPT !.todo = Tail(@),
                                 !.predictions =
                                     @ \o binary_records(splice, meta,
                                              loc.spliced_deps[binary])]
    /\ UNCHANGED <<splice, pc, ret, env>>

\* the end of the loop, symbols.py:110-111
SymbolsDone ==
    /\ pc = "symbols_loop"
    /\ loc.todo = <<>>
    /\ splice' = IF loc.predictions # <<>>
                 THEN [splice EXCEPT !.predictions = Put(@, "symbols", loc.predictions)]
                 ELSE splice
    /\ pc' = "symbols_done"
    /\ UNCHANGED <<loc, ret, env>>

(***************************************************************************)
(* The splices the symbol-graph predictor is run on                        *)
(***************************************************************************)
FoundOriginal == {("foo" :> HasLib(LibX1)),
                  ("foo" :> HasLib(LibX1)) @@ ("bar" :> HasLib(LibY))}

FoundSpliced == {("foo" :> HasLib(LibX2)),
                 ("foo" :> HasLib(LibY)) @@ ("bar" :> NoLib)}

DepsOriginal == {{LibX1}, {LibX1, LibY}}

DepsSpliced == {{}, {LibX2}, {LibX2, LibY}}

ExportSets == {{"a", "b", "c"}, {"a", "c"}}

\* an optional value: <<>> or <<v>>
Optional(S) == {<<>>} \cup {<<v>> : v \in S}

BinaryInputs ==
    [in_spliced : BOOLEAN, missing : MissingLists,
     found : FoundOriginal, spliced_found : FoundSpliced,
     deps : DepsOriginal, spliced_deps : DepsSpliced]

\* the metadata store: the symbol maps of the binaries, and the export maps of
\* the libraries that were analysed directly
Metadata(inp, eo, es) ==
    LET bins == [p \in {OrigBin(k) : k \in BinKeys} |->
                    LET k == CHOOSE k \in BinKeys : OrigBin(k) = p
                    IN  SymbolMap(inp[k].found, inp[k].missing, EmptyDict)]
        spl == [p \in {SplBin(k) : k \in {x \in BinKeys : inp[x].in_spliced}} |->
                    LET k == CHOOSE k \in BinKeys : SplBin(k) = p
                    IN  SymbolMap(inp[k].spliced_found, <<>>, EmptyDict)]
        exo == IF eo = <<>> THEN EmptyDict
               ELSE OriginalKey(LibX1) :> SymbolMap(EmptyDict, <<>>, Exported(eo[1]))
        exs == IF es = <<>> THEN EmptyDict
               ELSE SplicedKey(LibX2) :> SymbolMap(EmptyDict, <<>>, Exported(es[1]))
    IN  bins @@ spl @@ exo @@ exs

SymbolsSplice(inp, eo, es) ==
    [different_libs |-> FALSE,
     original |-> [k \in BinKeys |-> [lib |-> OrigBin(k), deps |-> inp[k].deps]],
     spliced |-> [k \in {x \in BinKeys : inp[x].in_spliced} |->
                     [lib |-> SplBin(k), deps |-> inp[k].spliced_deps]],
     metadata |-> Metadata(inp, eo, es),
     predictions |-> EmptyDict]

NoLocals == EmptyDict

NoEnv == EmptyDict

None == "None"

InitSymbols ==
    /\ \E inp \in [BinKeys -> BinaryInputs], eo \in Optional(ExportSets),
          es \in Optional(ExportSets), different \in BOOLEAN :
          /\ different =>
                 /\ inp = [k \in BinKeys |-> CHOOSE x \in BinaryInputs : TRUE]
                 /\ eo = <<>>
                 /\ es = <<>>
          /\ splice = [SymbolsSplice(inp, eo, es) EXCEPT !.different_libs = different]
    /\ loc = NoLocals
    /\ pc = "symbols"
    /\ ret = None
    /\ env = NoEnv

NextSymbols ==
    \/ SymbolsDifferentLibs
    \/ SymbolsEquivalentLibs
    \/ BinaryMissingFromSplice
    \/ BinaryOriginalMissing
    \/ BinaryChecks
    \/ SymbolsDone

SpecSymbols == InitSymbols /\ [][NextSymbols]_vars

(***************************************************************************)
(* The three checks of symbols.py as functions of their arguments          *)
(***************************************************************************)
\* the number of symbols a `found` map of these arguments can hold
MaxSymbols == 2

CheckSymbols == {SymbolOrder[i] : i \in 1..MaxSymbols}

FoundEntries == {NoLib, HasLib(LibX1), HasLib(LibX2), HasLib(LibY), HasLib(LibXY)}

\* the dependency matches the checks are called with
CheckMatches ==
    {[original |-> LibX1, spliced |-> LibX2], [original |-> LibX2, spliced |-> LibX1],
     [original |-> LibY, spliced |-> LibY], [original |-> LibXY, spliced |-> LibXY]}

InitChecks ==
    /\ \E found \in Dicts(CheckSymbols, FoundEntries),
          spliced_found \in Dicts(CheckSymbols, FoundEntries),
          match \in CheckMatches :
          /\ splice = [metadata |->
                          (OrigBin("swig") :> SymbolMap(found, <<>>, EmptyDict))
                          @@ (SplBin("swig") :> SymbolMap(spliced_found, <<>>, EmptyDict)),
                       predictions |-> EmptyDict]
          /\ loc = [meta |-> [lib |-> OrigBin("swig")],
                    spliced_meta |-> [lib |-> SplBin("swig")],
                    match |-> match]
    /\ pc = "check"
    /\ ret = None
    /\ env = NoEnv

\* a call of check_symbol_provisioner_change (symbols.py:70-72)
CallProvisionerChange ==
    /\ pc = "check"
    /\ ret' = check_symbol_provisioner_change(splice, loc.meta, loc.spliced_meta)
    /\ pc' = "provisioner_change"
    /\ UNCHANGED <<splice, loc, env>>

\* a call of missing_previously_found_symbols (symbols.py:85-89)
CallMissingSymbols ==
    /\ pc = "check"
    /\ ret' = missing_previously_found_symbols(loc.meta.lib,
                  splice.metadata[loc.meta.lib],
                  splice.metadata[loc.spliced_meta.lib], loc.match)
    /\ pc' = "missing_symbols"
    /\ UNCHANGED <<splice, loc, env>>

NextChecks == CallProvisionerChange \/ CallMissingSymbols

SpecChecks == InitChecks /\ [][NextChecks]_vars

(***************************************************************************)
(* Claims about the symbol-graph predictor                                 *)
(***************************************************************************)
\* the records the predictor has emitted into the result set
Emitted ==
    IF "symbols" \in DOMAIN splice.predictions THEN splice.predictions["symbols"]
    ELSE <<>>

\* the positions of the emitted records about the binary at path p
RecordsOf(p) == {i \in 1..Len(Emitted) : Emitted[i].binary = p}

\* the top-level binaries present in both trees
InBoth == DOMAIN splice.original \cap DOMAIN splice.spliced

Gated(k) == splice.metadata[splice.original[k].lib].missing # <<>>

\* C1: in equivalence mode, once the predictor has run, a binary present in both
\* trees whose original symbol map has a non-empty `missing` list has exactly one
\* emitted record, that record has prediction = FALSE, and it is none of the
\* provisioner-change, missing-symbols and missing-exports records.
C1_GateOrdering ==
    pc = "symbols_done" =>
        \A k \in InBoth :
            Gated(k) =>
                /\ Cardinality(RecordsOf(splice.original[k].lib)) = 1
                /\ \A i \in RecordsOf(splice.original[k].lib) :
                       /\ Emitted[i].prediction = FALSE
                       /\ Emitted[i].command \notin
                              {"binary-checks-symbol-provisioner-change",
                               "missing-previously-found-symbols",
                               "missing-previously-found-exports"}

\* C1 witness: a gated binary with matching dependencies and export metadata in the
\* store, beside a binary that passed the gate and got several records
C1_Witness ==
    /\ pc = "symbols_done"
    /\ \E k \in InBoth, k2 \in InBoth :
           /\ Gated(k)
           /\ match_by_prefix(splice.original[k].deps, splice.spliced[k].deps) # <<>>
           /\ OriginalKey(LibX1) \in DOMAIN splice.metadata
           /\ SplicedKey(LibX2) \in DOMAIN splice.metadata
           /\ ~Gated(k2)
           /\ Cardinality(RecordsOf(splice.original[k2].lib)) >= 3
           /\ Cardinality(RecordsOf(splice.original[k].lib)) = 1

\* the positions of the emitted records of one command about binary p and match m
MatchRecords(command, p, m) ==
    {i \in RecordsOf(p) :
        /\ Emitted[i].command = command
        /\ Emitted[i].original_lib = m.original
        /\ Emitted[i].spliced_lib = m.spliced}

MatchesOf(k) == match_by_prefix(splice.original[k].deps, splice.spliced[k].deps)

HasExportMetadata(m) ==
    /\ OriginalKey(m.original) \in DOMAIN splice.metadata
    /\ SplicedKey(m.spliced) \in DOMAIN splice.metadata

ExportsLost(m) ==
    DOMAIN splice.metadata[OriginalKey(m.original)].exported
    \ DOMAIN splice.metadata[SplicedKey(m.spliced)].exported

Elems(seq) == {seq[i] : i \in 1..Len(seq)}

\* C6: for each dependency match of a binary that passed the gate, a missing-exports
\* record is emitted exactly when both "original:<path>" and "spliced:<path>" are in
\* the metadata store; its missing list is exportedBefore minus exportedAfter and its
\* prediction is TRUE exactly when that list is empty; without the metadata no
\* missing-exports record is emitted, and the missing-symbols record of the match is
\* emitted either way.
C6_MissingExports ==
    pc = "symbols_done" =>
        \A k \in InBoth :
            ~Gated(k) =>
                \A n \in 1..Len(MatchesOf(k)) :
                    LET m == MatchesOf(k)[n]
                        p == splice.original[k].lib
                        ex == MatchRecords("missing-previously-found-exports", p, m)
                    IN  /\ Cardinality(MatchRecords("missing-previously-found-symbols",
                                                    p, m)) = 1
                        /\ Cardinality(ex) = IF HasExportMetadata(m) THEN 1 ELSE 0
                        /\ \A i \in ex :
                               /\ Elems(Emitted[i].message) = ExportsLost(m)
                               /\ Len(Emitted[i].message) = Cardinality(ExportsLost(m))
                               /\ Emitted[i].prediction = (ExportsLost(m) = {})

\* C6 witness: one binary with a match whose exports went from {a,b,c} to {a,c}
\* (record: missing b, prediction FALSE) and a match without export metadata (no
\* missing-exports record, one missing-symbols record)
C6_Witness ==
    /\ pc = "symbols_done"
    /\ \E k \in InBoth :
           /\ ~Gated(k)
           /\ \E n1, n2 \in 1..Len(MatchesOf(k)) :
                  LET m1 == MatchesOf(k)[n1]
                      m2 == MatchesOf(k)[n2]
                      p == splice.original[k].lib
                  IN  /\ HasExportMetadata(m1)
                      /\ ExportsLost(m1) = {"b"}
                      /\ \E i \in MatchRecords("missing-previously-found-exports", p, m1) :
                             /\ Emitted[i].message = <<"b">>
                             /\ Emitted[i].prediction = FALSE
                      /\ ~HasExportMetadata(m2)
                      /\ MatchRecords("missing-previously-found-exports", p, m2) = {}
                      /\ MatchRecords("missing-previously-found-symbols", p, m2) # {}

\* the symbols a `found` map resolves from the library at path p
ResolvedFrom(found, p) ==
    {s \in DOMAIN found : "lib" \in DOMAIN found[s] /\ found[s].lib.realpath = p}

\* the symbols a `found` map resolves from a named library
Resolved(found) == {s \in DOMAIN found : "lib" \in DOMAIN found[s]}

\* the identity key of the library that resolves s
KeyOf(found, s) == get_prefix(found[s].lib.realpath)

ArgFound == splice.metadata[loc.meta.lib].found

ArgSplicedFound == splice.metadata[loc.spliced_meta.lib].found

\* C3: the missing list of the missing-symbols record is (the symbols the original
\* binary resolves from match.original) minus (the symbols the spliced binary
\* resolves from match.spliced), prediction is TRUE exactly when it is empty, and so
\* whenever the first set is a subset of the second.
C3_MissingSymbols ==
    pc = "missing_symbols" =>
        LET before == ResolvedFrom(ArgFound, loc.match.original)
            after == ResolvedFrom(ArgSplicedFound, loc.match.spliced)
        IN  /\ Elems(ret.message) = before \ after
            /\ Len(ret.message) = Cardinality(before \ after)
            /\ ret.prediction = (before \ after = {})
            /\ before \subseteq after => ret.prediction = TRUE

\* C3 witness: a call where one symbol of the original is lost, and the spliced
\* binary resolves that symbol from a library other than the match's
C3_Witness ==
    /\ pc = "missing_symbols"
    /\ ResolvedFrom(ArgFound, loc.match.original) = CheckSymbols
    /\ \E s \in CheckSymbols :
           /\ ResolvedFrom(ArgSplicedFound, loc.match.spliced) = CheckSymbols \ {s}
           /\ s \in Resolved(ArgSplicedFound)
           /\ ret.message = <<s>>
           /\ ret.prediction = FALSE

\* a symbol of the original whose provider is gone or has another identity key
ProviderChanged(s) ==
    \/ s \notin Resolved(ArgSplicedFound)
    \/ KeyOf(ArgSplicedFound, s) # KeyOf(ArgFound, s)

\* the message holds "provided by " followed by the string q
ContainsProvidedBy(message, q) ==
    \E i \in 1..(Len(message) - 1) :
        /\ message[i] = Lit("provided by ")
        /\ message[i + 1].t = "str"
        /\ message[i + 1].v = q

\* C4: the provisioner-change record has prediction = FALSE exactly when some symbol
\* the original binary resolves from a named library is absent from the spliced
\* binary's resolved symbols or resolved there by a library with another identity
\* key; a symbol whose provider changed to identity key Q puts "provided by Q" into
\* the message.
C4_ProvisionerChange ==
    pc = "provisioner_change" =>
        /\ ret.prediction = FALSE <=> \E s \in Resolved(ArgFound) : ProviderChanged(s)
        /\ \A s \in Resolved(ArgFound) \cap Resolved(ArgSplicedFound) :
               KeyOf(ArgSplicedFound, s) # KeyOf(ArgFound, s) =>
                   ContainsProvidedBy(ret.message, KeyOf(ArgSplicedFound, s))

\* C4 witness: scenario B, foo moves from libx to liby, and another symbol of the
\* original is no longer resolved after the splice
C4_Witness ==
    /\ pc = "provisioner_change"
    /\ "foo" \in Resolved(ArgFound) /\ "foo" \in Resolved(ArgSplicedFound)
    /\ ArgFound["foo"].lib.realpath = LibX1
    /\ ArgSplicedFound["foo"].lib.realpath = LibY
    /\ \E s \in Resolved(ArgFound) : s \notin Resolved(ArgSplicedFound)
    /\ ret.prediction = FALSE
    /\ ContainsProvidedBy(ret.message, <<"l", "i", "b", "y">>)

\* every symbol the original resolves keeps the identity key of its provider
NoProviderChange == \A s \in Resolved(ArgFound) : ~ProviderChanged(s)

\* C5 as stated: when every symbol the original resolves (there is one) keeps the
\* identity key of its provider, the provisioner-change record has prediction = TRUE
\* and an empty message
C5_EmptyMessage ==
    (pc = "provisioner_change" /\ Resolved(ArgFound) # {} /\ NoProviderChange) =>
        /\ ret.prediction = TRUE
        /\ ret.message = <<>>

\* C5 amended: with no provider change the provisioner-change record has
\* prediction = TRUE and its message is the heading "Symbol provider changes: "
\* followed by nothing (it lists no change)
C5_NoChangeListed ==
    (pc = "provisioner_change" /\ NoProviderChange) =>
        /\ ret.prediction = TRUE
        /\ ret.message = <<Lit("Symbol provider changes: ")>>

\* C5 witness: scenario A, foo resolved from /lib/libx.1.so before the splice and
\* from /lib/libx.2.so after it
C5_Witness ==
    /\ pc = "provisioner_change"
    /\ Resolved(ArgFound) = {"foo"}
    /\ ArgFound["foo"].lib.realpath = LibX1
    /\ "foo" \in Resolved(ArgSplicedFound)
    /\ ArgSplicedFound["foo"].lib.realpath = LibX2
    /\ ret.prediction = TRUE

(***************************************************************************)
(* smeagle/__init__.py: SmeaglePrediction and its fact cache               *)
(*                                                                         *)
(* env is the world outside the predictor: the environment variables, the  *)
(* file system (files: path -> content, dirs), the fact extractor (the     *)
(* result of get_smeagle_data for each library: the extraction is          *)
(* deterministic), and two logs: cle_log, one entry per call of            *)
(* generate_cle_data, and compat_calls, one entry per call of the          *)
(* structural comparator.                                                  *)
(***************************************************************************)
C_smeagle == <<"s", "m", "e", "a", "g", "l", "e">>

C_json == <<".", "j", "s", "o", "n">>

C_asp == <<".", "a", "s", "p">>

\* tempfile.gettempdir(): /tmp
TempRoot == <<"/", "t", "m", "p">>

C_spliced_cache == <<"s", "p", "l", "i", "c", "e", "d", "-", "c", "a", "c", "h", "e">>

\* the directory utils.tempdir() makes: /tmp/t
FreshTempDir == <<"/", "t", "m", "p", "/", "t">>

\* a configured cache directory: /c
ConfiguredDir == <<"/", "c">>

\* /s/liba.so and /s/libb.so, the spliced libraries
LibA == <<"/", "s", "/">> \o C_lib \o <<"a">> \o Dot \o C_so

LibB == <<"/", "s", "/">> \o C_lib \o <<"b">> \o Dot \o C_so

\* /d/libz.so and /d/libm.so, dependencies outside the system paths
DepZ == <<"/", "d", "/">> \o C_lib \o <<"z">> \o Dot \o C_so

DepM == <<"/", "d", "/">> \o C_lib \o <<"m">> \o Dot \o C_so

\* /usr/libc.so, a system library (as is /lib/liby.so)
SysC == <<"/", "u", "s", "r", "/">> \o C_lib \o <<"c">> \o Dot \o C_so

\* None, where the code returns a path or None: both are tested for truth only
NoKey == <<>>

\* os.path.join(a, b) for a relative b
path_join(a, b) ==
    IF a = <<>> THEN b
    ELSE IF a[Len(a)] = "/" THEN a \o b
    ELSE a \o Slash \o b

\* os.path.dirname(p): what precedes the last "/" (the root stays "/")
dirname(p) ==
    LET idx == {i \in 1..Len(p) : p[i] = "/"}
        last == IF idx = {} THEN 0 ELSE CHOOSE i \in idx : \A j \in idx : j <= i
        head == SubSeq(p, 1, last)
    IN  IF head = <<>> \/ \A i \in 1..Len(head) : head[i] = "/" THEN head
        ELSE SubSeq(p, 1, last - 1)

RECURSIVE replace(_, _, _)
\* s.replace(old, new)
replace(s, old, new) ==
    IF Len(s) < Len(old) THEN s
    ELSE IF SubSeq(s, 1, Len(old)) = old
    THEN new \o replace(SubSeq(s, Len(old) + 1, Len(s)), old, new)
    ELSE <<Head(s)>> \o replace(Tail(s), old, new)

\* p is dir or lies under it
Under(p, dir) ==
    p = dir \/ startswith(p, IF dir[Len(dir)] = "/" THEN dir ELSE dir \o Slash)

RECURSIVE ancestors(_)
\* utils.mkdir_p(d) makes d and the directories above it
ancestors(d) ==
    IF d = <<>> \/ dirname(d) = d THEN {d} \ {<<>>}
    ELSE {d} \cup ancestors(dirname(d))

\* os.path.exists(p)
exists(e, p) == p \in DOMAIN e.files \/ p \in e.dirs

\* utils.mkdir_p(d)
mkdir_p(e, d) == [e EXCEPT !.dirs = @ \cup ancestors(d)]

\* shutil.rmtree(dir)
rmtree(e, dir) ==
    [e EXCEPT !.files = [p \in {x \in DOMAIN e.files : ~Under(x, dir)} |-> e.files[p]],
              !.dirs = {x \in e.dirs : ~Under(x, dir)}]

\* re.search("^(/usr|/lib)", dep)
is_system(dep) ==
    \/ startswith(dep, <<"/", "u", "s", "r">>)
    \/ startswith(dep, <<"/", "l", "i", "b">>)

\* the cache key of generate_cle_data, smeagle/__init__.py:155-160
cache_key_of(cache_dir, lib, prefix) ==
    IF prefix # <<>>
    THEN path_join(cache_dir, prefix \o <<"-">> \o strip(lib, "/") \o C_json)
    ELSE path_join(cache_dir, strip(lib, "/") \o C_json)

\* self.smeagle.get_smeagle_data(lib): the extractor's result for lib
get_smeagle_data(e, lib) == e.extractor[lib]

\* mutant: a result with a non-zero return code is cached too
facts_generated_any_code(data) == "data" \in DOMAIN data /\ data.data # ""

\* the test of smeagle/__init__.py:165
facts_generated(data) ==
    "data" \in DOMAIN data /\ data.data # "" /\ data.return_code = 0

\* generate_cle_data(lib, prefix): [e: the world after the call, key: what it returns]
generate_cle_data(e, cache_dir, lib, prefix) ==
    LET cache_key == cache_key_of(cache_dir, lib, prefix)
        logged(x, key, ran) ==
            [x EXCEPT !.cle_log = Append(@, [lib |-> lib, prefix |-> prefix,
                                             key |-> key, extracted |-> ran])]
    IN  IF exists(e, cache_key)
        THEN [e |-> logged(e, cache_key, FALSE), key |-> cache_key]
        ELSE LET data == get_smeagle_data(e, lib)
             IN  IF facts_generated(data)
                 THEN [e |-> logged([mkdir_p(e, dirname(cache_key)) EXCEPT
                                 !.files = Put(@, cache_key, data.data)],
                              cache_key, TRUE),
                       key |-> cache_key]
                 ELSE [e |-> logged(e, NoKey, TRUE), key |-> NoKey]

RECURSIVE collect_deps(_, _, _, _)
\* the loop of test_lib over the found symbols, smeagle/__init__.py:107-126;
\* acc: [e, deps: facts path -> symbols, order: the keys of deps as inserted,
\*       symbols]
collect_deps(syms, found, cache_dir, acc) ==
    IF syms = <<>> THEN acc
    ELSE LET symbol == Head(syms)
             dep == found[symbol].lib.realpath
         IN  IF is_system(dep) THEN collect_deps(Tail(syms), found, cache_dir, acc)
             ELSE LET g == generate_cle_data(acc.e, cache_dir, dep, C_smeagle)
                  IN  IF g.key = NoKey
                      THEN collect_deps(Tail(syms), found, cache_dir,
                                        [acc EXCEPT !.e = g.e])
                      ELSE collect_deps(Tail(syms), found, cache_dir,
                               [e |-> g.e,
                                deps |-> Put(acc.deps, g.key,
                                             (IF g.key \in DOMAIN acc.deps
                                              THEN acc.deps[g.key] ELSE {})
                                             \cup {symbol}),
                                order |-> IF g.key \in DOMAIN acc.deps THEN acc.order
                                          ELSE Append(acc.order, g.key),
                                symbols |-> acc.symbols \cup {symbol}])

\* what the structural comparator may answer (smeagle.SmeagleRunner.compatible_test)
CompatibleTestResults ==
    {[return_code |-> 0, message |-> "", prediction |-> TRUE],
     [return_code |-> 0, message |-> "incompatible", prediction |-> FALSE]}

\* the record of smeagle/__init__.py:88-96
missing_symbols_record(sp, lib) ==
    [return_code |-> -1,
     lib |-> lib,
     prediction |-> FALSE,
     data |-> sp.metadata[lib].missing,
     message |-> "Library is missing symbols, so smeagle model would fail."]

\* predict, smeagle/__init__.py:36-37: nothing was spliced
SmeagleNoSpliced ==
    /\ pc = "smeagle"
    /\ splice.spliced = <<>>
    /\ pc' = "smeagle_done"
    /\ UNCHANGED <<splice, loc, ret, env>>

\* predict up to its first loop, smeagle/__init__.py:40-63
SmeagleSetup ==
    /\ pc = "smeagle"
    /\ splice.spliced # <<>>
    /\ LET configured ==
               IF "SPLICED_SMEAGLE_CACHE_DIR" \in DOMAIN env.environ
               THEN env.environ["SPLICED_SMEAGLE_CACHE_DIR"]
               ELSE path_join(TempRoot, C_spliced_cache)
           cleanup == configured = <<>>
           cache_dir == IF cleanup THEN FreshTempDir ELSE configured
       IN  /\ env' = IF configured # <<>> /\ ~exists(env, configured)
                     THEN mkdir_p(env, configured)
                     ELSE IF configured = <<>>
                     THEN mkdir_p(env, FreshTempDir)
                     ELSE env
           /\ loc' = [cache_dir |-> cache_dir,
                      cleanup |-> cleanup,
                      spliced |-> <<>>,
                      todo |-> splice.spliced,
                      next |-> 1]
    /\ splice' = [splice EXCEPT !.predictions = Put(@, "smeagle", <<>>)]
    /\ pc' = "smeagle_generate"
    /\ UNCHANGED ret

\* where predict goes once `spliced` holds the libraries with facts
AfterGenerate(todo, spliced) ==
    IF todo # <<>> THEN "smeagle_generate"
    ELSE IF spliced # <<>> THEN "smeagle_test"
    ELSE "smeagle_cleanup"

\* one iteration of the first loop, smeagle/__init__.py:66-69
SmeagleGenerate ==
    /\ pc = "smeagle_generate"
    /\ LET lib == Head(loc.todo)
           g == generate_cle_data(env, loc.cache_dir, lib, C_smeagle)
           spliced == IF g.key # NoKey
                      THEN Append(loc.spliced, [lib |-> lib, facts_path |-> g.key])
                      ELSE loc.spliced
       IN  /\ env' = g.e
           /\ loc' = [loc EXCEPT !.todo = Tail(@), !.spliced = spliced]
           /\ pc' = AfterGenerate(Tail(loc.todo), spliced)
    /\ UNCHANGED <<splice, ret>>

AfterTest == IF loc.next < Len(loc.spliced) THEN "smeagle_test" ELSE "smeagle_cleanup"

\* one iteration of the second loop: test_lib fails fast, smeagle/__init__.py:87-97
TestLibMissing ==
    /\ pc = "smeagle_test"
    /\ LET lib == loc.spliced[loc.next].lib
       IN  /\ splice.metadata[lib].missing # <<>>
           /\ splice' = [splice EXCEPT !.predictions["smeagle"] =
                                           Append(@, missing_symbols_record(splice, lib))]
    /\ loc' = [loc EXCEPT !.next = @ + 1]
    /\ pc' = AfterTest
    /\ UNCHANGED <<ret, env>>

\* one iteration of the second loop: test_lib runs the model,
\* smeagle/__init__.py:100-148
TestLib ==
    /\ pc = "smeagle_test"
    /\ LET lib == loc.spliced[loc.next].lib
           facts_path == loc.spliced[loc.next].facts_path
           found == splice.metadata[lib].found
           acc == collect_deps(keys(found), found, loc.cache_dir,
                               [e |-> env, deps |-> EmptyDict, order |-> <<>>,
                                symbols |-> {}])
           B_set == acc.order
           deps == Put(acc.deps, facts_path, acc.symbols)
           output_asp == replace(facts_path, C_json, C_asp)
       IN  /\ splice.metadata[lib].missing = <<>>
           /\ \E res \in CompatibleTestResults :
                  /\ splice' = [splice EXCEPT
                         !.stats = Put(@, lib,
                                       [total_matched_symbols |->
                                            Cardinality(acc.symbols)]),
                         !.predictions["smeagle"] =
                             Append(@, [return_code |-> res.return_code,
                                        message |-> res.message,
                                        prediction |-> res.prediction,
                                        seconds |-> "t2 - t1"])]
                  /\ env' = [acc.e EXCEPT
                         !.files = Put(@, output_asp, "asp"),
                         !.compat_calls = Append(@, [A |-> facts_path,
                                                     B_set |-> B_set,
                                                     deps |-> deps])]
    /\ loc' = [loc EXCEPT !.next = @ + 1]
    /\ pc' = AfterTest
    /\ UNCHANGED ret

\* the end of predict, smeagle/__init__.py:75-76
SmeagleCleanup ==
    /\ pc = "smeagle_cleanup"
    /\ env' = IF loc.cleanup /\ exists(env, loc.cache_dir)
              THEN rmtree(env, loc.cache_dir)
              ELSE env
    /\ pc' = "smeagle_done"
    /\ UNCHANGED <<splice, loc, ret>>

(***************************************************************************)
(* The splices and worlds the structural predictor is run on               *)
(***************************************************************************)
\* the extractor's results
Facts == [data |-> "facts", return_code |-> 0]

FailedCode == [data |-> "facts", return_code |-> 1]

EmptyData == [data |-> "", return_code |-> 0]

SmeagleFound ==
    {EmptyDict,
     "foo" :> HasLib(DepZ),
     ("foo" :> HasLib(DepZ)) @@ ("bar" :> HasLib(DepZ)),
     ("foo" :> HasLib(DepZ)) @@ ("bar" :> HasLib(DepM)),
     ("foo" :> HasLib(SysC)) @@ ("bar" :> HasLib(DepM)),
     ("foo" :> HasLib(LibY)) @@ ("bar" :> HasLib(DepZ))}

SmeagleSpliced == {<<>>, <<LibA>>, <<LibA, LibB>>}

Extractors ==
    {(LibA :> a) @@ (LibB :> b) @@ (DepZ :> z) @@ (DepM :> m) :
        a \in {Facts, FailedCode}, b \in {Facts, EmptyData},
        z \in {Facts, FailedCode, EmptyData}, m \in {Facts, FailedCode}}

\* the cache directory as the run finds it: the variable unset, set to a directory,
\* or set to the empty string; the directory absent, or left by an earlier run with
\* the facts of /d/libz.so in it
Worlds ==
    LET kept(dir) == [environ |-> EmptyDict,
                      files |-> cache_key_of(dir, DepZ, C_smeagle) :> "facts",
                      dirs |-> ancestors(dirname(cache_key_of(dir, DepZ, C_smeagle)))]
        bare == [environ |-> EmptyDict, files |-> EmptyDict, dirs |-> {TempRoot, Slash}]
        set(w, v) == [w EXCEPT !.environ = "SPLICED_SMEAGLE_CACHE_DIR" :> v]
    IN  {bare, kept(path_join(TempRoot, C_spliced_cache)),
         set(bare, ConfiguredDir), set(kept(ConfiguredDir), ConfiguredDir),
         set(bare, <<>>)}

InitSmeagle ==
    /\ \E spliced \in SmeagleSpliced,
          md \in [{LibA, LibB} -> [found : SmeagleFound, missing : MissingLists]],
          extractor \in Extractors, w \in Worlds :
          /\ LibB \notin Elems(spliced) =>
                 md[LibB] = [found |-> EmptyDict, missing |-> <<>>]
          /\ LibA \notin Elems(spliced) =>
                 md[LibA] = [found |-> EmptyDict, missing |-> <<>>]
          /\ splice = [spliced |-> spliced,
                       metadata |-> [l \in Elems(spliced) |->
                                        SymbolMap(md[l].found, md[l].missing, EmptyDict)],
                       predictions |-> EmptyDict,
                       stats |-> EmptyDict]
          /\ env = [environ |-> w.environ, files |-> w.files, dirs |-> w.dirs,
                    extractor |-> extractor, cle_log |-> <<>>, compat_calls |-> <<>>]
    /\ loc = NoLocals
    /\ pc = "smeagle"
    /\ ret = None

NextSmeagle ==
    \/ SmeagleNoSpliced
    \/ SmeagleSetup
    \/ SmeagleGenerate
    \/ TestLibMissing
    \/ TestLib
    \/ SmeagleCleanup

SpecSmeagle == InitSmeagle /\ [][NextSmeagle]_vars

(***************************************************************************)
(* Claims about the structural predictor and the fact cache                *)
(***************************************************************************)
\* the calls of generate_cle_data so far with the arguments of call i
SameCall(i) ==
    {j \in 1..Len(env.cle_log) :
        /\ env.cle_log[j].lib = env.cle_log[i].lib
        /\ env.cle_log[j].prefix = env.cle_log[i].prefix}

\* C2: any two calls of generate_cle_data with the same library and prefix within
\* one run invoke the extractor at most once in total, whether the first extraction
\* succeeded or failed, and both return the same result.
C2_ExtractOnce ==
    \A i \in 1..Len(env.cle_log) :
        /\ Cardinality({j \in SameCall(i) : env.cle_log[j].extracted}) <= 1
        /\ \A j \in SameCall(i) : env.cle_log[j].key = env.cle_log[i].key

\* the records of the structural predictor
SmeagleRecords ==
    IF "smeagle" \in DOMAIN splice.predictions THEN splice.predictions["smeagle"]
    ELSE <<>>

\* the comparator calls made for the library whose facts are at facts_path
CompatCallsFor(facts_path) ==
    {i \in 1..Len(env.compat_calls) : env.compat_calls[i].A = facts_path}

\* the cache directory of the run
RunCacheDir ==
    IF "SPLICED_SMEAGLE_CACHE_DIR" \notin DOMAIN env.environ
    THEN path_join(TempRoot, C_spliced_cache)
    ELSE IF env.environ["SPLICED_SMEAGLE_CACHE_DIR"] = <<>> THEN FreshTempDir
    ELSE env.environ["SPLICED_SMEAGLE_CACHE_DIR"]

FactsPathOf(lib) == cache_key_of(RunCacheDir, lib, C_smeagle)

\* C8: once the structural predictor has run, every spliced library whose symbol
\* map has a non-empty `missing` list has a failing record (prediction = FALSE,
\* return_code = -1) and the comparator was never invoked for it, whether or not
\* the facts of the library could be extracted.
C8_GateAlways ==
    pc = "smeagle_done" =>
        \A lib \in Elems(splice.spliced) :
            splice.metadata[lib].missing # <<>> =>
                /\ \E i \in 1..Len(SmeagleRecords) :
                       /\ "lib" \in DOMAIN SmeagleRecords[i]
                       /\ SmeagleRecords[i].lib = lib
                       /\ SmeagleRecords[i].prediction = FALSE
                       /\ SmeagleRecords[i].return_code = -1
                /\ CompatCallsFor(FactsPathOf(lib)) = {}

\* fact generation fails for lib: a non-zero return code or empty data
GenerationFails(lib) ==
    \/ env.extractor[lib].return_code # 0
    \/ env.extractor[lib].data = ""

\* the facts of lib are not to be had: they are not in the cache and cannot be
\* generated
NoFacts(lib) == GenerationFails(lib) /\ FactsPathOf(lib) \notin DOMAIN env.files

\* the libraries test_lib has run on so far that passed its gate
Modelled ==
    IF pc \in {"smeagle_test", "smeagle_cleanup", "smeagle_done"} /\ loc # NoLocals
    THEN {loc.spliced[i].lib : i \in {j \in 1..(loc.next - 1) :
                                          splice.metadata[loc.spliced[j].lib].missing = <<>>}}
    ELSE {}

\* the dependencies of lib outside the system paths
UsedDeps(lib) ==
    {d \in {splice.metadata[lib].found[s].lib.realpath :
                s \in DOMAIN splice.metadata[lib].found} : ~is_system(d)}

\* C9: a dependency whose fact generation fails is left out of the model with the
\* symbols it provides, and the run goes on: for every library that reached the
\* model, the comparator was invoked exactly once, against exactly the fact entries
\* of the remaining dependencies outside the system paths, each restricted to the
\* symbols it provides, and every library tested so far has its record.
C9_GracefulDegradation ==
    /\ (pc \in {"smeagle_test", "smeagle_cleanup", "smeagle_done"} /\ loc # NoLocals)
           => Len(SmeagleRecords) = loc.next - 1
    /\ \A lib \in Modelled :
           LET calls == CompatCallsFor(FactsPathOf(lib))
               found == splice.metadata[lib].found
               remaining == {d \in UsedDeps(lib) : ~NoFacts(d)}
           IN  /\ Cardinality(calls) = 1
               /\ \A i \in calls :
                      LET c == env.compat_calls[i]
                      IN  /\ Elems(c.B_set) = {FactsPathOf(d) : d \in remaining}
                          /\ Len(c.B_set) = Cardinality(remaining)
                          /\ DOMAIN c.deps = Elems(c.B_set) \cup {c.A}
                          /\ \A d \in remaining :
                                 c.deps[FactsPathOf(d)] = ResolvedFrom(found, d)
                          /\ c.deps[c.A] =
                                 UNION {ResolvedFrom(found, d) : d \in remaining}
                          /\ \A d \in UsedDeps(lib) \ remaining :
                                 /\ FactsPathOf(d) \notin Elems(c.B_set)
                                 /\ ResolvedFrom(found, d) \cap c.deps[c.A] = {}

\* C9 witness: scenario D, /s/liba.so resolves foo from /d/libz.so, whose extraction
\* returns return_code 1, and bar from /d/libm.so: the comparator ran once, against
\* the facts of /d/libm.so and the symbol bar alone
C9_Witness ==
    /\ pc = "smeagle_cleanup"
    /\ LibA \in Modelled
    /\ env.extractor[DepZ].return_code = 1
    /\ NoFacts(DepZ)
    /\ ResolvedFrom(splice.metadata[LibA].found, DepZ) = {"foo"}
    /\ ResolvedFrom(splice.metadata[LibA].found, DepM) = {"bar"}
    /\ \E i \in CompatCallsFor(FactsPathOf(LibA)) :
           /\ env.compat_calls[i].B_set = <<FactsPathOf(DepM)>>
           /\ env.compat_calls[i].deps[FactsPathOf(LibA)] = {"bar"}

(***************************************************************************)
(* libabigail.py: LibabigailPrediction                                     *)
(*                                                                         *)
(* Here env is [on_path: the path of abicompat on PATH, or "" when it is   *)
(* not there; spack: what the spack fallback does; commands: the log of    *)
(* the commands given to utils.run_command], and loc.abicompat is          *)
(* self.abicompat (<<>> for None).                                         *)
(***************************************************************************)
C_abicompat == <<"a", "b", "i", "c", "o", "m", "p", "a", "t">>

\* /bin/abicompat
PathAbicompat == <<"/", "b", "i", "n", "/">> \o C_abicompat

\* /sp/bin/abicompat, under the prefix of spack's libabigail
SpackAbicompat == <<"/", "s", "p", "/", "b", "i", "n", "/">> \o C_abicompat

C_foo == <<"f", "o", "o">>

\* /o/libfoo.so.1 and /o/libfoobar.so.1, original libraries
OrigFoo == <<"/", "o", "/">> \o C_lib \o C_foo \o Dot \o C_so \o Dot \o <<"1">>

OrigFoobar ==
    <<"/", "o", "/">> \o C_lib \o C_foo \o <<"b", "a", "r">> \o Dot \o C_so \o Dot \o <<"1">>

\* /s/libfoo.so.2 and /s/libz.so.2, spliced libraries
SplFoo == <<"/", "s", "/">> \o C_lib \o C_foo \o Dot \o C_so \o Dot \o <<"2">>

SplZ == <<"/", "s", "/">> \o C_lib \o <<"z">> \o Dot \o C_so \o Dot \o <<"2">>

\* str(x) where x is a path or None
format(x) == IF x = <<>> THEN <<"N", "o", "n", "e">> ELSE x

\* "%s %s %s %s" % (a, b, c, d)
command_line(a, b, c, d) ==
    format(a) \o <<" ">> \o format(b) \o <<" ">> \o format(c) \o <<" ">> \o format(d)

\* utils.which("abicompat")
which(e) == [message |-> e.on_path]

\* find_abicompat, libabigail.py:25-64: [abicompat: self.abicompat after the call,
\* e: the world after it]
find_abicompat(abicompat, e) ==
    LET first == which(e)
    IN  IF first.message = <<>>
        THEN IF e.spack = "ImportError"
             THEN [abicompat |-> abicompat, e |-> e]
             ELSE LET e2 == [e EXCEPT !.on_path = IF e.spack = "installed"
                                                  THEN SpackAbicompat ELSE <<>>]
                      second == which(e2)
                  IN  IF second.message = <<>>
                      THEN [abicompat |-> abicompat, e |-> e2]
                      ELSE [abicompat |-> second.message, e |-> e2]
        ELSE [abicompat |-> first.message, e |-> e]

RECURSIVE chain(_)
\* list(itertools.chain(*[x["paths"] for x in libsets]))
chain(libsets) ==
    IF libsets = <<>> THEN <<>> ELSE Head(libsets).paths \o chain(Tail(libsets))

\* the iterations of nested loops over xs and ys, in order
Pairs(xs, ys) ==
    [i \in 1..(Len(xs) * Len(ys)) |->
        <<xs[((i - 1) \div Len(ys)) + 1], ys[((i - 1) % Len(ys)) + 1]>>]

\* what the comparator may answer (utils.run_command)
CommandResults ==
    {[return_code |-> 0, message |-> ""],
     [return_code |-> 0, message |-> "ELF file changes"],
     [return_code |-> 4, message |-> "ABI incompatible"]}

\* predict, libabigail.py:71-72: no libraries
AbigailNoLibs ==
    /\ pc = "libabigail"
    /\ splice.libs = EmptyDict
    /\ pc' = "libabigail_done"
    /\ UNCHANGED <<splice, loc, ret, env>>

\* predict, libabigail.py:74-90, up to the loops of the mode it selects
AbigailPredict ==
    /\ pc = "libabigail"
    /\ splice.libs # EmptyDict
    /\ LET f == IF loc.abicompat = <<>> THEN find_abicompat(loc.abicompat, env)
                ELSE [abicompat |-> loc.abicompat, e |-> env]
       IN  /\ env' = f.e
           /\ IF /\ "spliced" \in DOMAIN splice.libs
                 /\ "original" \in DOMAIN splice.libs
                 /\ splice.libs["spliced"] # <<>>
              THEN /\ loc' = [abicompat |-> f.abicompat,
                              original_libs |-> chain(splice.libs["original"]),
                              predictions |-> <<>>,
                              todo |-> Pairs(splice.binaries,
                                             chain(splice.libs["spliced"]))]
                   /\ pc' = "libabigail_equivalent"
              ELSE IF "dep" \in DOMAIN splice.libs /\ "replace" \in DOMAIN splice.libs
              THEN /\ loc' = [abicompat |-> f.abicompat,
                              predictions |-> <<>>,
                              todo |-> Pairs(splice.binaries,
                                             Pairs(chain(splice.libs["dep"]),
                                                   chain(splice.libs["replace"])))]
                   /\ pc' = "libabigail_different"
              ELSE /\ loc' = [abicompat |-> f.abicompat]
                   /\ pc' = "libabigail_done"
    /\ UNCHANGED <<splice, ret>>

\* the test of libabigail.py:167
prefix_matches(x, libprefix) == startswith(basename(x), libprefix)

\* the originals of libabigail.py:164-168
originals_of(original_libs, lib) ==
    LET libprefix == split_first(basename(lib), ".")
    IN  SelectSeq(original_libs, LAMBDA x : prefix_matches(x, libprefix))

\* one iteration of the loops of splice_equivalent_libs, libabigail.py:169-174:
\* no original library for the spliced one
EquivalentNoOriginal ==
    /\ pc = "libabigail_equivalent"
    /\ loc.todo # <<>>
    /\ originals_of(loc.original_libs, Head(loc.todo)[2]) = <<>>
    /\ loc' = [loc EXCEPT !.todo = Tail(@)]
    /\ UNCHANGED <<splice, pc, ret, env>>

\* one iteration of the loops of splice_equivalent_libs, libabigail.py:177-196:
\* the spliced library is compared with every original that matches
EquivalentCompare ==
    /\ pc = "libabigail_equivalent"
    /\ loc.todo # <<>>
    /\ LET binary == Head(loc.todo)[1]
           lib == Head(loc.todo)[2]
           originals == originals_of(loc.original_libs, lib)
       IN  /\ originals # <<>>
           /\ \E res \in [1..Len(originals) -> CommandResults] :
                  /\ env' = [env EXCEPT !.commands = @ \o
                                [i \in 1..Len(originals) |->
                                    [line |-> command_line(loc.abicompat, binary,
                                                           originals[i], lib),
                                     abicompat |-> loc.abicompat,
                                     binary |-> binary,
                                     original |-> originals[i],
                                     lib |-> lib]]]
                  /\ loc' = [loc EXCEPT
                         !.todo = Tail(@),
                         !.predictions = @ \o
                             [i \in 1..Len(originals) |->
                                 [return_code |-> res[i].return_code,
                                  message |-> res[i].message,
                                  binary |-> binary,
                                  splice_type |-> "same_lib",
                                  lib |-> lib,
                                  original_lib |-> lib,
                                  prediction |-> (res[i].message = ""
                                                  /\ res[i].return_code = 0)]]]
    /\ UNCHANGED <<splice, pc, ret>>

\* one iteration of the loops of splice_different_libs, libabigail.py:107-135
DifferentCompare ==
    /\ pc = "libabigail_different"
    /\ loc.todo # <<>>
    /\ LET binary == Head(loc.todo)[1]
           original_lib == Head(loc.todo)[2][1]
           replace_lib == Head(loc.todo)[2][2]
       IN  \E res \in CommandResults :
               /\ env' = [env EXCEPT !.commands =
                             Append(@, [line |-> command_line(loc.abicompat, binary,
                                                    original_lib, replace_lib),
                                        abicompat |-> loc.abicompat,
                                        binary |-> binary,
                                        original |-> original_lib,
                                        lib |-> replace_lib])]
               /\ loc' = [loc EXCEPT
                      !.todo = Tail(@),
                      !.predictions =
                          Append(@, [return_code |-> res.return_code,
                                     message |-> res.message,
                                     binary |-> binary,
                                     splice_type |-> "different_lib",
                                     replace |-> replace_lib,
                                     lib |-> original_lib,
                                     prediction |-> (res.message = ""
                                                     /\ res.return_code = 0)])]
    /\ UNCHANGED <<splice, pc, ret>>

\* the end of either mode, libabigail.py:137-138 and 198-199
AbigailDone ==
    /\ pc \in {"libabigail_equivalent", "libabigail_different"}
    /\ loc.todo = <<>>
    /\ splice' = IF loc.predictions # <<>>
                 THEN [splice EXCEPT !.predictions = Put(@, "libabigail",
                                                         loc.predictions)]
                 ELSE splice
    /\ pc' = "libabigail_done"
    /\ UNCHANGED <<loc, ret, env>>

(***************************************************************************)
(* The splices and tools the pairwise predictor is run on                  *)
(***************************************************************************)
LibSet(paths) == [paths |-> paths]

AbigailLibs ==
    {EmptyDict}
    \cup {("original" :> o) @@ ("spliced" :> sp) :
            o \in {<<>>, <<LibSet(<<OrigFoo>>)>>, <<LibSet(<<OrigFoobar>>)>>,
                   <<LibSet(<<OrigFoo>>), LibSet(<<OrigFoobar>>)>>},
            sp \in {<<>>, <<LibSet(<<SplFoo>>)>>, <<LibSet(<<SplZ>>)>>,
                    <<LibSet(<<SplFoo, SplZ>>)>>}}
    \cup {("dep" :> d) @@ ("replace" :> r) :
            d \in {<<LibSet(<<OrigFoo>>)>>},
            r \in {<<LibSet(<<SplZ>>)>>, <<LibSet(<<SplZ>>), LibSet(<<SplFoo>>)>>}}

AbigailBinaries == {<<SplBin("swig")>>, <<SplBin("swig"), SplBin("pcre")>>}

\* abicompat on PATH or not, and what the spack fallback does: importing spack
\* raises; spack has or installs libabigail with abicompat; its prefix has none
AbigailTools ==
    {[on_path |-> PathAbicompat, spack |-> "ImportError"]}
    \cup {[on_path |-> <<>>, spack |-> x] :
            x \in {"ImportError", "installed", "no abicompat"}}

InitAbigail ==
    /\ \E libs \in AbigailLibs, binaries \in AbigailBinaries, tools \in AbigailTools,
          abicompat \in {<<>>, PathAbicompat} :
          /\ abicompat # <<>> => tools.on_path = PathAbicompat
          /\ splice = [libs |-> libs, binaries |-> binaries, predictions |-> EmptyDict]
          /\ env = [on_path |-> tools.on_path, spack |-> tools.spack, commands |-> <<>>]
          /\ loc = [abicompat |-> abicompat]
    /\ pc = "libabigail"
    /\ ret = None

NextAbigail ==
    \/ AbigailNoLibs
    \/ AbigailPredict
    \/ EquivalentNoOriginal
    \/ EquivalentCompare
    \/ DifferentCompare
    \/ AbigailDone

SpecAbigail == InitAbigail /\ [][NextAbigail]_vars

(***************************************************************************)
(* Claims about the pairwise predictor                                     *)
(***************************************************************************)
\* the records of the pairwise predictor
AbigailRecords ==
    IF "libabigail" \in DOMAIN splice.predictions THEN splice.predictions["libabigail"]
    ELSE <<>>

\* abicompat is neither on the search path nor to be had from spack
ToolUnavailable == env.on_path = <<>> /\ loc.abicompat = <<>>

\* C7: when abicompat can be located neither on the search path nor through spack,
\* the pairwise predictor is disabled for the run: it runs no comparison command and
\* adds no record to the result set.
C7_ToolUnavailable ==
    ToolUnavailable =>
        /\ env.commands = <<>>
        /\ AbigailRecords = <<>>

\* equivalence mode was selected (libabigail.py:79-84)
EquivalenceMode ==
    /\ "spliced" \in DOMAIN splice.libs
    /\ "original" \in DOMAIN splice.libs
    /\ splice.libs["spliced"] # <<>>

\* the comparisons run for binary b, original library o and spliced library l
Comparisons(b, o, l) ==
    {i \in 1..Len(env.commands) :
        /\ env.commands[i].binary = b
        /\ env.commands[i].original = o
        /\ env.commands[i].lib = l}

\* C10: in equivalence mode, with abicompat found, the comparator was run once, and
\* one record per run with splice_type "same_lib" emitted, for every (binary,
\* original library, spliced library) whose libraries share the identity key, and
\* never for libraries with different identity keys.
C10_SameIdentityKey ==
    (pc = "libabigail_done" /\ EquivalenceMode /\ loc.abicompat # <<>>) =>
        /\ \A b \in Elems(splice.binaries) :
               \A o \in Elems(chain(splice.libs["original"])) :
                   \A l \in Elems(chain(splice.libs["spliced"])) :
                       Cardinality(Comparisons(b, o, l)) =
                           IF get_prefix(o) = get_prefix(l) THEN 1 ELSE 0
        /\ Len(AbigailRecords) = Len(env.commands)
        /\ \A i \in 1..Len(AbigailRecords) : AbigailRecords[i].splice_type = "same_lib"

(***************************************************************************)
(* The fact cache under concurrent workers                                 *)
(*                                                                         *)
(* generate_cle_data (smeagle/__init__.py:150-174) takes no lock and keeps *)
(* no table of the extractions in flight: a call tests os.path.exists,     *)
(* runs the extractor (a blocking external process), makes the directory   *)
(* and writes the file, and other calls may run between any two of these.  *)
(* Here pc, loc.worker and ret are per worker: the statement the worker is *)
(* at, the locals of its call, and what its last call returned.            *)
(***************************************************************************)
NumWorkers == 2

Workers == 1..NumWorkers

\* how many requests a worker takes from the task queue
MaxRequests == 2

\* the fact-generation requests: (lib, prefix)
Requests == {LibA, DepZ} \X {C_smeagle, <<>>}

\* the locals of a worker outside generate_cle_data
Idle(n) == [lib |-> <<>>, prefix |-> <<>>, cache_key |-> NoKey, data |-> EmptyData,
            requests |-> n]

\* generate_cle_data is called, smeagle/__init__.py:155-160: the cache key
WorkerCall(w) ==
    /\ pc[w] = "idle"
    /\ loc.worker[w].requests < MaxRequests
    /\ \E r \in Requests :
           loc' = [loc EXCEPT !.worker[w] =
                       [lib |-> r[1], prefix |-> r[2],
                        cache_key |-> cache_key_of(loc.cache_dir, r[1], r[2]),
                        data |-> EmptyData,
                        requests |-> @.requests + 1]]
    /\ pc' = [pc EXCEPT ![w] = "exists"]
    /\ UNCHANGED <<splice, ret, env>>

\* smeagle/__init__.py:161-164: the cached key is returned, or the extractor is
\* started
WorkerExists(w) ==
    /\ pc[w] = "exists"
    /\ IF exists(env, loc.worker[w].cache_key)
       THEN /\ ret' = [ret EXCEPT ![w] = loc.worker[w].cache_key]
            /\ loc' = [loc EXCEPT !.worker[w] = Idle(@.requests)]
            /\ pc' = [pc EXCEPT ![w] = "idle"]
       ELSE /\ pc' = [pc EXCEPT ![w] = "get_smeagle_data"]
            /\ UNCHANGED <<ret, loc>>
    /\ UNCHANGED <<splice, env>>

\* smeagle/__init__.py:164-165, 170-174: the extractor returns
WorkerExtracted(w) ==
    /\ pc[w] = "get_smeagle_data"
    /\ LET data == get_smeagle_data(env, loc.worker[w].lib)
       IN  IF facts_generated(data)
           THEN /\ loc' = [loc EXCEPT !.worker[w].data = data]
                /\ pc' = [pc EXCEPT ![w] = "mkdir_p"]
                /\ UNCHANGED ret
           ELSE /\ ret' = [ret EXCEPT ![w] = NoKey]
                /\ loc' = [loc EXCEPT !.worker[w] = Idle(@.requests)]
                /\ pc' = [pc EXCEPT ![w] = "idle"]
    /\ UNCHANGED <<splice, env>>

\* smeagle/__init__.py:166-167
WorkerMkdir(w) ==
    /\ pc[w] = "mkdir_p"
    /\ env' = mkdir_p(env, dirname(loc.worker[w].cache_key))
    /\ pc' = [pc EXCEPT ![w] = "write_json"]
    /\ UNCHANGED <<splice, loc, ret>>

\* smeagle/__init__.py:168-169
WorkerWrite(w) ==
    /\ pc[w] = "write_json"
    /\ env' = [env EXCEPT !.files = Put(@, loc.worker[w].cache_key,
                                        loc.worker[w].data.data)]
    /\ ret' = [ret EXCEPT ![w] = loc.worker[w].cache_key]
    /\ loc' = [loc EXCEPT !.worker[w] = Idle(@.requests)]
    /\ pc' = [pc EXCEPT ![w] = "idle"]
    /\ UNCHANGED splice

\* the cache as the workers find it: empty, or with the facts of /d/libz.so
WorkerWorlds ==
    LET dir == path_join(TempRoot, C_spliced_cache)
        key == cache_key_of(dir, DepZ, C_smeagle)
    IN  {[files |-> EmptyDict, dirs |-> ancestors(dir)],
         [files |-> key :> "facts", dirs |-> ancestors(dirname(key))]}

WorkerExtractors ==
    {(LibA :> a) @@ (DepZ :> z) : a \in {Facts, FailedCode}, z \in {Facts, EmptyData}}

InitWorkers ==
    /\ \E w \in WorkerWorlds, extractor \in WorkerExtractors :
           env = [environ |-> EmptyDict, files |-> w.files, dirs |-> w.dirs,
                  extractor |-> extractor, cle_log |-> <<>>, compat_calls |-> <<>>]
    /\ splice = [spliced |-> <<LibA>>,
                 metadata |-> LibA :> SymbolMap("foo" :> HasLib(DepZ), <<>>, EmptyDict),
                 predictions |-> EmptyDict,
                 stats |-> EmptyDict]
    /\ loc = [cache_dir |-> path_join(TempRoot, C_spliced_cache),
              worker |-> [w \in Workers |-> Idle(0)]]
    /\ pc = [w \in Workers |-> "idle"]
    /\ ret = [w \in Workers |-> NoKey]

NextWorkers ==
    \E w \in Workers :
        \/ WorkerCall(w)
        \/ WorkerExists(w)
        \/ WorkerExtracted(w)
        \/ WorkerMkdir(w)
        \/ WorkerWrite(w)

SpecWorkers == InitWorkers /\ [][NextWorkers]_vars

\* the workers whose extractor is running for cache key k
InFlight(k) ==
    {w \in Workers : pc[w] = "get_smeagle_data" /\ loc.worker[w].cache_key = k}

\* C11: when workers request the facts of the same cache key (same library and
\* prefix) concurrently and no cache file exists yet, the extractor for that key is
\* never running in two workers at the same time.
C11_NoConcurrentExtraction ==
    \A w \in Workers : Cardinality(InFlight(loc.worker[w].cache_key)) <= 1

(***************************************************************************)
(* The life of the cache directory (specification SpecSmeagle)             *)
(***************************************************************************)
\* predict ran to its end and got past its first test (smeagle/__init__.py:36-37)
SmeagleRan == pc = "smeagle_done" /\ loc # NoLocals

\* the fact files generate_cle_data has returned during the run
ReturnedKeys == {env.cle_log[i].key : i \in 1..Len(env.cle_log)} \ {NoKey}

\* a persistent cache path was configured
PersistentConfigured ==
    /\ "SPLICED_SMEAGLE_CACHE_DIR" \in DOMAIN env.environ
    /\ env.environ["SPLICED_SMEAGLE_CACHE_DIR"] # <<>>

\* C12: at the end of a run of the structural predictor, if the cache-directory
\* environment variable is not set, the cache directory used lies under the
\* temporary directory and no longer exists; if a persistent path was configured,
\* that directory is the one used and it and its cached fact files still exist.
C12_CacheDirLifecycle ==
    SmeagleRan =>
        /\ "SPLICED_SMEAGLE_CACHE_DIR" \notin DOMAIN env.environ =>
               /\ Under(loc.cache_dir, TempRoot)
               /\ ~exists(env, loc.cache_dir)
        /\ PersistentConfigured =>
               /\ loc.cache_dir = env.environ["SPLICED_SMEAGLE_CACHE_DIR"]
               /\ loc.cache_dir \in env.dirs
               /\ \A k \in ReturnedKeys : Under(k, loc.cache_dir) /\ k \in DOMAIN env.files

====
